---- MODULE Spec2Model ----
(***************************************************************************)
(* Model of the transport-backend request handlers:                        *)
(*   controller/shipmentController.js  (createShipment, getShipmentById,   *)
(*                                      updateShipment, deleteShipment)    *)
(*   controller/driverController.js    (createDriver, getDriverById,       *)
(*                                      updateDriverById, deleteDriverById)*)
(*   the Bill model's pre-save hook    (sequence counter)                  *)
(*                                                                         *)
(* Every handler is an async function: between two awaited store           *)
(* operations any other request may run.  One action of the model is one   *)
(* store operation together with the synchronous code that follows it up   *)
(* to the next awaited store operation (or to the response).               *)
(***************************************************************************)
EXTENDS Integers, FiniteSets, Sequences, TLC

\* ------------------------------------------------------------------ bounds
NumReqs == 2        \* createShipment requests in flight at a time
MaxCalls == 2       \* requests received in one run
NumSavers == 3      \* concurrent Bill saves
MaxBillFail == 1    \* cap on failed counter increments

\* ------------------------------------------------------- values of fields
\* JavaScript `undefined` for a numeric field that the body does not carry.
Undefined == -1
\* `undefined` for a string field that the body does not carry.
NoStatus == "undefined"
\* A 24-character string of decimal digits passes isMongoId() and is cast by
\* the store layer to a Number far above every truck id; 99 stands for it.
MongoIdDigits == 99

Reqs == 1..NumReqs
TruckIds == {1}                    \* the Truck records of the store
ClientIds == {1}                   \* the Client records of the store
DriverIds == {1, 2}                \* driverId route parameters
ShipmentIds == {1, 2}              \* shipmentId route parameters
Savers == 1..NumSavers

\* request inputs
TruckIdInputs == {Undefined, 0, 1, 2}
DriverIdInputs == {Undefined, 0, 1, 2}
ClientIdInputs == {0, 1, 2}
StatusInputs == {NoStatus, "delivered"}
CargoWeightInputs == {-5, 10}

VARIABLES
    trucks,     \* Truck collection: truckId -> availabilityStatus
    drivers,    \* Driver collection: driverId -> [availabilityStatus, assignedTruck]
    clients,    \* Client collection: set of clientIds
    shipments,  \* Shipment collection: shipmentId -> record
    counter,    \* Counter collection: key -> sequence
    pc,         \* createShipment request -> position in the handler
    req,        \* createShipment request -> request body
    pre,        \* createShipment request -> what the body named when it arrived
    resp,       \* createShipment request -> response
    last,       \* response of the last single-entity handler
    calls,      \* number of requests received
    born,       \* shipmentId -> the Trucks and Drivers "Available" when it was inserted
    billPc,     \* Bill save -> position
    billIdOf,   \* Bill save -> billId set by the pre-save hook
    bills,      \* Bill collection: set of billIds
    handed      \* sequence of the billIds handed out, in order

storeVars == <<trucks, drivers, clients, shipments>>
ghostVars == <<calls, born>>
reqVars == <<pc, req, pre, resp>>
billVars == <<billPc, billIdOf, bills, handed>>
vars == <<trucks, drivers, clients, shipments, counter, pc, req, pre, resp,
          last, calls, born, billPc, billIdOf, bills, handed>>

NoBody == [clientId |-> Undefined, truckId |-> Undefined, driverId |-> Undefined,
           status |-> NoStatus, cargoWeight |-> 0]
NoResp == [status |-> 0, message |-> ""]
NoPre == [truckOk |-> FALSE, driverOk |-> FALSE, clientOk |-> FALSE]
NoLast == [op |-> "", found |-> FALSE, status |-> 0]

Init ==
    /\ trucks = [t \in TruckIds |-> "Available"]
    /\ drivers = [d \in {1} |-> [availabilityStatus |-> "Available",
                                 assignedTruck |-> Undefined]]
    /\ clients = ClientIds
    /\ shipments = <<>>
    /\ counter = [billId |-> 0, driverId |-> 1, shipmentId |-> 0]
    /\ pc = [r \in Reqs |-> "idle"]
    /\ req = [r \in Reqs |-> NoBody]
    /\ pre = [r \in Reqs |-> NoPre]
    /\ resp = [r \in Reqs |-> NoResp]
    /\ last = NoLast
    /\ calls = 0
    /\ born = <<>>
    /\ billPc = [b \in Savers |-> "new"]
    /\ billIdOf = [b \in Savers |-> 0]
    /\ bills = {}
    /\ handed = <<>>

\* save() of a new Driver or Shipment: the pre-save hook of the model
\* replaces the placeholder id 0 by the next value of the sequence counter.
HookedId(key) == counter[key] + 1

\* ------------------------------------------------------------ createShipment
\* One more request is received (the number of requests in a run is capped).
Received == calls < MaxCalls /\ calls' = calls + 1

\* `if (truckId)`: JavaScript truthiness of an optional numeric field.
Truthy(x) == x # Undefined /\ x # 0

\* body("cargoWeight").isFloat({ gt: 0 }) stands for the field validators;
\* .optional().isNumeric() accepts every numeric truckId/driverId, 0 included.
ValidationOk(b) == b.cargoWeight > 0

StatusNoDefault(s) == s

\* status = "pending" default of the destructuring
StatusOrDefault(s) == IF s = NoStatus THEN "pending" ELSE s

\* The store operation a request awaits next, in source order.
AfterDriverCheck(b) == IF Truthy(b.clientId) THEN "clientCheck" ELSE "save"
AfterTruckCheck(b) == IF Truthy(b.driverId) THEN "driverCheck" ELSE AfterDriverCheck(b)
FirstOp(b) == IF Truthy(b.truckId) THEN "truckCheck" ELSE AfterTruckCheck(b)
AfterTruckUpdate(b) == IF Truthy(b.driverId) THEN "driverUpdate" ELSE "done"
AfterSaveSkipsTruck(b) == AfterTruckUpdate(b)
AfterSave(b) == IF Truthy(b.truckId) THEN "truckUpdate" ELSE AfterTruckUpdate(b)

Created == [status |-> 201, message |-> "Shipment created successfully."]
Rejected(m) == [status |-> 400, message |-> m]
\* lines 165-170: the catch block
Failed == [status |-> 500, message |-> "An internal server error occurred."]

\* What the body names in the store at the moment the request arrives.
Names(b) ==
    [truckOk |-> b.truckId \in DOMAIN trucks /\ trucks[b.truckId] = "Available",
     driverOk |-> b.driverId \in DOMAIN drivers
                    /\ drivers[b.driverId].availabilityStatus = "Available",
     clientOk |-> b.clientId \in clients]

\* The handler moves on to its next awaited operation; at "done" it has
\* answered and its locals (req.body, the destructured fields) are gone.
Goto(r, p) ==
    /\ pc' = [pc EXCEPT ![r] = p]
    /\ resp' = [resp EXCEPT ![r] = IF p = "done" THEN Created ELSE @]
    /\ IF p = "done"
         THEN req' = [req EXCEPT ![r] = NoBody] /\ pre' = [pre EXCEPT ![r] = NoPre]
         ELSE UNCHANGED <<req, pre>>

Reject(r, m) ==
    /\ pc' = [pc EXCEPT ![r] = "done"]
    /\ resp' = [resp EXCEPT ![r] = Rejected(m)]
    /\ req' = [req EXCEPT ![r] = NoBody]
    /\ pre' = [pre EXCEPT ![r] = NoPre]

\* lines 12-78: field validation and destructuring.  A new request takes
\* the lowest free position of the handler table.
Begin(r) ==
    /\ pc[r] \in {"idle", "done"}
    /\ \A q \in Reqs : q < r => pc[q] \notin {"idle", "done"}
    /\ Received
    /\ \E c \in ClientIdInputs, t \in TruckIdInputs, d \in DriverIdInputs,
          s \in StatusInputs, w \in CargoWeightInputs :
        LET b == [clientId |-> c, truckId |-> t, driverId |-> d,
                  status |-> s, cargoWeight |-> w] IN
        IF ValidationOk(b)
          THEN /\ pc' = [pc EXCEPT ![r] = FirstOp(b)]
               /\ req' = [req EXCEPT ![r] = b]
               /\ pre' = [pre EXCEPT ![r] = Names(b)]
               /\ UNCHANGED resp
          ELSE Reject(r, "validation")
    /\ UNCHANGED <<storeVars, counter, last, born, billVars>>

\* lines 82-95
TruckCheck(r) ==
    /\ pc[r] = "truckCheck"
    /\ LET t == req[r].truckId IN
        IF t \notin DOMAIN trucks
          THEN Reject(r, "Invalid Truck ID. Truck does not exist.")
          ELSE IF trucks[t] # "Available"
            THEN Reject(r, "Truck is not available.")
            ELSE Goto(r, AfterTruckCheck(req[r]))
    /\ UNCHANGED <<storeVars, counter, last, calls, born, billVars>>

\* lines 98-111
DriverCheck(r) ==
    /\ pc[r] = "driverCheck"
    /\ LET d == req[r].driverId IN
        IF d \notin DOMAIN drivers
          THEN Reject(r, "Invalid Driver ID. Driver does not exist.")
          ELSE IF drivers[d].availabilityStatus # "Available"
            THEN Reject(r, "Driver is not available.")
            ELSE Goto(r, AfterDriverCheck(req[r]))
    /\ UNCHANGED <<storeVars, counter, last, calls, born, billVars>>

\* lines 114-122
ClientCheck(r) ==
    /\ pc[r] = "clientCheck"
    /\ IF req[r].clientId \notin clients
         THEN Reject(r, "Invalid Client ID. Client does not exist.")
         ELSE Goto(r, "save")
    /\ UNCHANGED <<storeVars, counter, last, calls, born, billVars>>

AvailableNow ==
    [trucks |-> {t \in DOMAIN trucks : trucks[t] = "Available"},
     drivers |-> {d \in DOMAIN drivers : drivers[d].availabilityStatus = "Available"}]

ShipmentOf(b) ==
    [clientId |-> b.clientId, truckId |-> b.truckId, driverId |-> b.driverId,
     status |-> StatusOrDefault(b.status)]

\* lines 125-141: new Shipment({shipmentId: 0, ...}).save(); the pre-save hook
\* replaces the placeholder id by the next value of the sequence counter.
Save(r) ==
    /\ pc[r] = "save"
    /\ LET id == HookedId("shipmentId") IN
        /\ counter' = [counter EXCEPT !.shipmentId = id]
        /\ shipments' = (id :> ShipmentOf(req[r])) @@ shipments
        /\ born' = (id :> AvailableNow) @@ born
    /\ Goto(r, AfterSave(req[r]))
    /\ UNCHANGED <<trucks, drivers, clients, last, calls, billVars>>

TruckSetAvailable == "Available"

\* $set of Truck.updateOne, lines 145-148
TruckSet == "Not Available"

TruckUpdate(r) ==
    /\ pc[r] = "truckUpdate"
    /\ LET t == req[r].truckId IN
        trucks' = IF t \in DOMAIN trucks THEN [trucks EXCEPT ![t] = TruckSet]
                  ELSE trucks
    /\ Goto(r, AfterTruckUpdate(req[r]))
    /\ UNCHANGED <<drivers, clients, shipments, counter, last, calls, born, billVars>>

DriverSetAvailable(old, truckId) ==
    {[availabilityStatus |-> "Available", assignedTruck |-> truckId]}

DriverSetStatusOnly(old, truckId) ==
    {[availabilityStatus |-> "Not Available", assignedTruck |-> old.assignedTruck]}

\* $set of Driver.updateOne, lines 153-158.  With truckId undefined the key
\* assignedTruck is either dropped from the update (the field keeps its
\* value) or written as null, depending on the store library.
DriverSet(old, truckId) ==
    {[availabilityStatus |-> "Not Available", assignedTruck |-> a] :
        a \in IF truckId = Undefined THEN {old.assignedTruck, Undefined}
              ELSE {truckId}}

DriverUpdate(r) ==
    /\ pc[r] = "driverUpdate"
    /\ LET d == req[r].driverId IN
        IF d \in DOMAIN drivers
          THEN \E n \in DriverSet(drivers[d], req[r].truckId) :
                  drivers' = [drivers EXCEPT ![d] = n]
          ELSE drivers' = drivers
    /\ Goto(r, "done")
    /\ UNCHANGED <<trucks, clients, shipments, counter, last, calls, born, billVars>>

\* lines 165-170: the store rejects the operation the request awaits (a
\* lookup, the insert or one of the two updates) without applying it.  The
\* catch block logs the error and answers 500; it undoes nothing of what the
\* request has written before.
StoreFails(r) ==
    /\ pc[r] \notin {"idle", "done"}
    /\ pc' = [pc EXCEPT ![r] = "done"]
    /\ resp' = [resp EXCEPT ![r] = Failed]
    /\ req' = [req EXCEPT ![r] = NoBody]
    /\ pre' = [pre EXCEPT ![r] = NoPre]
    /\ UNCHANGED <<storeVars, counter, last, calls, born, billVars>>

\* The steps of a request that has passed field validation.
Step(r) ==
    \/ TruckCheck(r)
    \/ DriverCheck(r)
    \/ ClientCheck(r)
    \/ Save(r)
    \/ TruckUpdate(r)
    \/ DriverUpdate(r)
    \/ StoreFails(r)

\* ------------------------------------------------------- driverController.js
Answer(op, found, status) == [op |-> op, found |-> found, status |-> status]

\* Driver schema default of availabilityStatus.
DriverStatusOrDefault(s) == IF s = NoStatus THEN "Available" ELSE s

\* lines 6-109.  The licence-number lookup (lines 66-72) answers 400 without
\* touching the store and is not part of the model; salary stands for the
\* field validators.  driver.save() replaces the placeholder driverId 0 by the
\* next value of the sequence counter.
CreateDriver ==
    /\ Received
    /\ \E salary \in {0, 1000}, s \in {NoStatus, "Not Available"}, a \in {Undefined, 1} :
        IF salary > 0
          THEN LET id == HookedId("driverId") IN
               /\ counter' = [counter EXCEPT !.driverId = id]
               /\ drivers' = (id :> [availabilityStatus |-> DriverStatusOrDefault(s),
                                     assignedTruck |-> a]) @@ drivers
               /\ last' = Answer("createDriver", TRUE, 201)
          ELSE /\ last' = Answer("createDriver", TRUE, 400)
               /\ UNCHANGED <<drivers, counter>>
    /\ UNCHANGED <<trucks, clients, shipments, reqVars, born, billVars>>

\* lines 125-138: driver.assignedTruck is read before the null test, so an
\* absent driver raises a TypeError that the catch block answers with 500.
GetDriverByIdStatus(found) == IF found THEN 200 ELSE 500

GetDriverById ==
    /\ Received
    /\ \E d \in DriverIds :
        last' = Answer("getDriverById", d \in DOMAIN drivers,
                       GetDriverByIdStatus(d \in DOMAIN drivers))
    /\ UNCHANGED <<storeVars, counter, reqVars, born, billVars>>

\* findOneAndUpdate({driverId}, updateData): the fields the body carries
\* replace the record's.
MergeDriver(old, s, a) ==
    [availabilityStatus |-> IF s = NoStatus THEN old.availabilityStatus ELSE s,
     assignedTruck |-> IF a = Undefined THEN old.assignedTruck ELSE a]

\* lines 198-221: as in getDriverById, the null test comes after the read of
\* driver.assignedTruck.
UpdateDriverByIdStatus(found) == IF found THEN 200 ELSE 500

UpdateDriverById ==
    /\ Received
    /\ \E d \in DriverIds, s \in {NoStatus, "Available", "Not Available"},
          a \in {Undefined, MongoIdDigits} :
        /\ drivers' = IF d \in DOMAIN drivers
                        THEN [drivers EXCEPT ![d] = MergeDriver(@, s, a)]
                        ELSE drivers
        /\ last' = Answer("updateDriverById", d \in DOMAIN drivers,
                          UpdateDriverByIdStatus(d \in DOMAIN drivers))
    /\ UNCHANGED <<trucks, clients, shipments, counter, reqVars, born, billVars>>

Remove(f, k) == [x \in DOMAIN f \ {k} |-> f[x]]

\* lines 238-250
DeleteDriverById ==
    /\ Received
    /\ \E d \in DriverIds :
        /\ drivers' = Remove(drivers, d)
        /\ last' = Answer("deleteDriverById", d \in DOMAIN drivers,
                          IF d \in DOMAIN drivers THEN 200 ELSE 404)
    /\ UNCHANGED <<trucks, clients, shipments, counter, reqVars, born, billVars>>

\* ----------------------------------------------------- shipmentController.js
\* lines 205-228
GetShipmentById ==
    /\ Received
    /\ \E id \in ShipmentIds :
        last' = Answer("getShipmentById", id \in DOMAIN shipments,
                       IF id \in DOMAIN shipments THEN 200 ELSE 404)
    /\ UNCHANGED <<storeVars, counter, reqVars, born, billVars>>

\* findOneAndUpdate({shipmentId: id}, req.body): the body is merged as it is;
\* truckId is not among the validated fields and is not checked.
MergeShipment(old, t, s) ==
    [old EXCEPT !.truckId = IF t = Undefined THEN @ ELSE t,
                !.status = IF s = NoStatus THEN @ ELSE s]

\* lines 287-315: updatedShipment.truckId is read before the null test.
UpdateShipmentStatus(found) == IF found THEN 200 ELSE 500

UpdateShipment ==
    /\ Received
    /\ \E id \in ShipmentIds, t \in {Undefined, 2}, s \in {NoStatus, "delivered"} :
        /\ shipments' = IF id \in DOMAIN shipments
                          THEN [shipments EXCEPT ![id] = MergeShipment(@, t, s)]
                          ELSE shipments
        /\ last' = Answer("updateShipment", id \in DOMAIN shipments,
                          UpdateShipmentStatus(id \in DOMAIN shipments))
    /\ UNCHANGED <<trucks, drivers, clients, counter, reqVars, born, billVars>>

\* lines 319-339
DeleteShipment ==
    /\ Received
    /\ \E id \in ShipmentIds :
        /\ shipments' = Remove(shipments, id)
        /\ born' = Remove(born, id)
        /\ last' = Answer("deleteShipment", id \in DOMAIN shipments,
                          IF id \in DOMAIN shipments THEN 200 ELSE 404)
    /\ UNCHANGED <<trucks, drivers, clients, counter, reqVars, billVars>>

\* findOne answers null (the empty sequence) or the one document found.  A
\* Shipment stored without truckId or driverId is looked up with the key
\* undefined, which matches no Truck and no Driver.
Null == <<>>
FindTruck(t) ==
    IF t \in DOMAIN trucks
      THEN <<[truckId |-> t, availabilityStatus |-> trucks[t]]>> ELSE Null
FindDriver(d) ==
    IF d \in DOMAIN drivers
      THEN <<[driverId |-> d, availabilityStatus |-> drivers[d].availabilityStatus,
              assignedTruck |-> drivers[d].assignedTruck]>>
      ELSE Null
FindClient(c) ==
    IF c \in clients THEN <<[clientId |-> c, clientName |-> c]>> ELSE Null

\* lines 177-189: the entry of one shipment; truck and driver are passed on
\* as found, client.clientName is read from the client found.
Populated(id) ==
    [shipment |-> shipments[id],
     truck |-> FindTruck(shipments[id].truckId),
     driver |-> FindDriver(shipments[id].driverId),
     clientName |-> FindClient(shipments[id].clientId)[1].clientName]

\* line 182: client.clientName with client null raises a TypeError, which
\* rejects the Promise.all of line 176.
ClientNameThrows ==
    \E id \in DOMAIN shipments : FindClient(shipments[id].clientId) = Null

GetAllShipmentsAlways200(throws) == 200

\* lines 192-199
GetAllShipmentsStatus(throws) == IF throws THEN 500 ELSE 200

\* lines 174-202.  `at` is the number of the request that was answered.
GetAllShipments ==
    /\ Received
    /\ last' = [op |-> "getAllShipments", found |-> TRUE,
                status |-> GetAllShipmentsStatus(ClientNameThrows),
                entries |-> IF ClientNameThrows THEN <<>>
                            ELSE [id \in DOMAIN shipments |-> Populated(id)],
                at |-> calls + 1]
    /\ UNCHANGED <<storeVars, counter, reqVars, born, billVars>>

\* One request to a single-entity handler or to the listing.
Crud ==
    \/ GetAllShipments
    \/ CreateDriver
    \/ GetDriverById
    \/ UpdateDriverById
    \/ DeleteDriverById
    \/ GetShipmentById
    \/ UpdateShipment
    \/ DeleteShipment

\* ------------------------------------------------------------ specifications
InFlight == {r \in Reqs : pc[r] \notin {"idle", "done"}}

\* Requests are served in any interleaving of their store operations.
Next ==
    \/ \E r \in Reqs : Begin(r)
    \/ \E r \in Reqs : Step(r)
    \/ Crud

Spec == Init /\ [][Next]_vars

\* Requests are served one after the other.
NextSeq ==
    \/ \E r \in Reqs : InFlight = {} /\ Begin(r)
    \/ \E r \in Reqs : Step(r)
    \/ InFlight = {} /\ CreateDriver
    \/ InFlight = {} /\ GetDriverById
    \/ InFlight = {} /\ UpdateDriverById
    \/ InFlight = {} /\ DeleteDriverById
    \/ InFlight = {} /\ GetShipmentById
    \/ InFlight = {} /\ UpdateShipment
    \/ InFlight = {} /\ DeleteShipment
    \/ InFlight = {} /\ GetAllShipments

SpecSeq == Init /\ [][NextSeq]_vars

\* One createShipment request at a time; single-entity requests are served
\* between its store operations.
NextOne ==
    \/ \E r \in Reqs : InFlight = {} /\ Begin(r)
    \/ \E r \in Reqs : Step(r)
    \/ Crud

SpecOne == Init /\ [][NextOne]_vars

\* ------------------------------------------------- Bill model, pre-save hook
\* { $inc: { sequence: 1 } } with upsert: an absent counter document counts
\* as sequence 0.
Incremented(c) == c + 1

ReturnedOld(before, after) == before

\* { new: true }: findOneAndUpdate answers the document after the update.
Returned(before, after) == after

BillFails == Cardinality({b \in Savers : billPc[b] = "failed"})

\* lines 77-91, this.isNew: one atomic findOneAndUpdate on the counter, then
\* this.billId = counter.sequence.  When the store rejects the operation the
\* hook passes the error on and the save is abandoned.
BillHook(b) ==
    /\ billPc[b] = "new"
    /\ \/ LET after == Incremented(counter.billId)
              id == Returned(counter.billId, after) IN
           /\ counter' = [counter EXCEPT !.billId = after]
           /\ billIdOf' = [billIdOf EXCEPT ![b] = id]
           /\ handed' = Append(handed, id)
           /\ billPc' = [billPc EXCEPT ![b] = "hooked"]
       \/ /\ BillFails < MaxBillFail
          /\ billPc' = [billPc EXCEPT ![b] = "failed"]
          /\ UNCHANGED <<counter, billIdOf, handed>>
    /\ UNCHANGED <<storeVars, reqVars, last, ghostVars, bills>>

\* The insert that follows the hook; billId carries a unique index.
BillInsert(b) ==
    /\ billPc[b] = "hooked"
    /\ IF billIdOf[b] \in bills
         THEN billPc' = [billPc EXCEPT ![b] = "failed"] /\ UNCHANGED bills
         ELSE /\ bills' = bills \cup {billIdOf[b]}
              /\ billPc' = [billPc EXCEPT ![b] = "saved"]
    /\ UNCHANGED <<storeVars, counter, reqVars, last, ghostVars, billIdOf, handed>>

NextBill ==
    \/ \E b \in Savers : BillHook(b)
    \/ \E b \in Savers : BillInsert(b)

SpecBill == Init /\ [][NextBill]_vars

\* ================================================================== claims
\* A step of createShipment request r / its answering step.
StepOf(r) == pc'[r] # pc[r]
Answers(r) == pc[r] \notin {"idle", "done"} /\ pc'[r] = "done"
ShipmentStep == \E r \in Reqs : StepOf(r)
\* The step in which the store rejects the operation request r awaits.
Fails(r) == Answers(r) /\ resp'[r] = Failed
Inserted == DOMAIN shipments' \ DOMAIN shipments

\* C1: a request that named an Available truck, an Available driver and an
\* existing client when it arrived and is answered 201 leaves a Shipment with
\* its truckId and driverId stored, the truck and the driver "Not Available",
\* and the driver's assignedTruck equal to its truckId (requests served one
\* after the other).
C1_CreatedAssigns ==
    [][\A r \in Reqs :
        (Answers(r) /\ resp'[r].status = 201
            /\ pre[r].truckOk /\ pre[r].driverOk /\ pre[r].clientOk)
        => LET b == req[r] IN
           /\ \E id \in DOMAIN shipments' :
                /\ shipments'[id].truckId = b.truckId
                /\ shipments'[id].driverId = b.driverId
           /\ trucks'[b.truckId] = "Not Available"
           /\ b.driverId \in DOMAIN drivers'
           /\ drivers'[b.driverId].availabilityStatus = "Not Available"
           /\ drivers'[b.driverId].assignedTruck = b.truckId]_vars

C1_Witness ==
    \E r \in Reqs :
        /\ pc[r] = "done" /\ resp[r].status = 201
        /\ trucks[1] = "Not Available"
        /\ 1 \in DOMAIN drivers
        /\ drivers[1] = [availabilityStatus |-> "Not Available", assignedTruck |-> 1]
        /\ \E id \in DOMAIN shipments :
              shipments[id].truckId = 1 /\ shipments[id].driverId = 1

\* A body fails a business rule when an id it carries names no usable record.
BusinessInvalid(b, p) ==
    \/ b.truckId # Undefined /\ ~p.truckOk
    \/ b.driverId # Undefined /\ ~p.driverOk
    \/ ~p.clientOk

\* C2: a request whose truckId, driverId or clientId names no usable record
\* is answered 400 (unless the store rejects one of its lookups) and none of
\* its steps changes the store.
C2_RejectsInvalid ==
    [][\A r \in Reqs :
        (pc[r] \notin {"idle", "done"} /\ StepOf(r) /\ ~Fails(r)
            /\ BusinessInvalid(req[r], pre[r]))
        => /\ UNCHANGED storeVars
           /\ pc'[r] = "done" => resp'[r].status = 400]_vars

\* C3: of the createShipment requests answered 201, no two have stored a
\* Shipment for the same Truck, and no two for the same Driver.
C3_AtMostOneWins ==
    (\A r \in Reqs : pc[r] = "done" /\ resp[r].status = 201) =>
    \A i, j \in DOMAIN shipments :
        i # j =>
          /\ ~(shipments[i].truckId \in DOMAIN trucks
                 /\ shipments[i].truckId = shipments[j].truckId)
          /\ ~(shipments[i].driverId \in DOMAIN drivers
                 /\ shipments[i].driverId = shipments[j].driverId)

\* C4: the billIds handed out start at 1, increase strictly, and the saves
\* that hold one hold pairwise different ones.
C4_IdsUnique ==
    /\ Len(handed) > 0 => handed[1] = 1
    /\ \A i, j \in 1..Len(handed) : i < j => handed[i] < handed[j]
    /\ \A a, b \in Savers :
          (a # b /\ billPc[a] \in {"hooked", "saved"} /\ billPc[b] \in {"hooked", "saved"})
          => billIdOf[a] # billIdOf[b]
    /\ Cardinality({billIdOf[b] : b \in {x \in Savers : billPc[x] \in {"hooked", "saved"}}})
          = Len(handed)

C4_Witness ==
    /\ \A b \in Savers : billPc[b] = "saved"
    /\ Cardinality(bills) = NumSavers

\* C5: every stored Shipment that carries a truckId (driverId) refers to a
\* Truck (Driver) that was "Available" when the shipment was inserted.
C5_RefsWereAvailable ==
    \A id \in DOMAIN shipments :
        /\ shipments[id].truckId # Undefined
              => shipments[id].truckId \in born[id].trucks
        /\ shipments[id].driverId # Undefined
              => shipments[id].driverId \in born[id].drivers

\* C6: a request that carries neither truckId nor driverId changes no Truck
\* and no Driver record in any of its steps, and the Shipment it inserts
\* (unless the store rejects the insert) has the status it supplied,
\* "pending" when it supplied none.
C6_NoRefsFrame ==
    [][\A r \in Reqs :
        (pc[r] \notin {"idle", "done"} /\ StepOf(r)
            /\ req[r].truckId = Undefined /\ req[r].driverId = Undefined)
        => /\ UNCHANGED <<trucks, drivers>>
           /\ (pc[r] = "save" /\ ~Fails(r)) =>
                /\ Inserted # {}
                /\ \A id \in Inserted :
                     shipments'[id].status =
                        (IF req[r].status = NoStatus THEN "pending" ELSE req[r].status)]_vars

C6_Witness ==
    \E r \in Reqs, id \in DOMAIN shipments :
        /\ pc[r] = "done" /\ resp[r].status = 201
        /\ shipments[id].truckId = Undefined /\ shipments[id].driverId = Undefined
        /\ shipments[id].status = "pending"
        /\ \A t \in DOMAIN trucks : trucks[t] = "Available"

\* The message of the first check that fails among those createShipment
\* runs, in the order truck, driver, client ("" when none fails).
FirstFailing(b) ==
    IF Truthy(b.truckId) /\ b.truckId \notin DOMAIN trucks
      THEN "Invalid Truck ID. Truck does not exist."
    ELSE IF Truthy(b.truckId) /\ trucks[b.truckId] # "Available"
      THEN "Truck is not available."
    ELSE IF Truthy(b.driverId) /\ b.driverId \notin DOMAIN drivers
      THEN "Invalid Driver ID. Driver does not exist."
    ELSE IF Truthy(b.driverId) /\ drivers[b.driverId].availabilityStatus # "Available"
      THEN "Driver is not available."
    ELSE IF Truthy(b.clientId) /\ b.clientId \notin clients
      THEN "Invalid Client ID. Client does not exist."
    ELSE ""

\* C7: a rejected request carries the message of the first failing check in
\* the order truck, driver, client, and a Shipment is inserted only after the
\* check of every id the request specifies has been run and has passed.
C7_ChecksInOrder ==
    [][\A r \in Reqs :
        /\ (Answers(r) /\ resp'[r].status = 400)
              => resp'[r].message = FirstFailing(req[r])
        /\ (pc[r] = "save" /\ StepOf(r))
              => /\ req[r].truckId # Undefined
                    => req[r].truckId \in DOMAIN trucks
                         /\ trucks[req[r].truckId] = "Available"
                 /\ req[r].driverId # Undefined
                    => req[r].driverId \in DOMAIN drivers
                         /\ drivers[req[r].driverId].availabilityStatus = "Available"
                 /\ req[r].clientId \in clients]_vars

ById == {"getShipmentById", "updateShipment", "deleteShipment",
         "getDriverById", "updateDriverById", "deleteDriverById"}

\* C8: a lookup, update or delete by id whose target is absent answers 404.
C8_AbsentIs404 ==
    (last.op \in ById /\ ~last.found) => last.status = 404

\* C9 as claimed: the availabilityStatus of an existing Driver or Truck
\* changes only in a step of createShipment.
C9_OnlyCreateShipment ==
    [][/\ (\E d \in DOMAIN drivers \cap DOMAIN drivers' :
              drivers'[d].availabilityStatus # drivers[d].availabilityStatus)
          => ShipmentStep
       /\ trucks' # trucks => ShipmentStep]_vars

\* C9 as amended: the availabilityStatus of an existing Truck changes only in
\* a step of createShipment, and then to "Not Available"; that of an existing
\* Driver changes only in a step of createShipment, and then to
\* "Not Available", or in updateDriverById, which stores the status its body
\* carries and can return a driver to "Available".
C9_StatusWriters ==
    [][/\ \A d \in DOMAIN drivers \cap DOMAIN drivers' :
            drivers'[d].availabilityStatus # drivers[d].availabilityStatus
            => \/ /\ \E r \in Reqs : StepOf(r) /\ pc[r] = "driverUpdate"
                                      /\ req[r].driverId = d
                  /\ drivers'[d].availabilityStatus = "Not Available"
               \/ /\ ~ShipmentStep
                  /\ last' = Answer("updateDriverById", TRUE, 200)
       /\ \A t \in DOMAIN trucks :
            trucks'[t] # trucks[t]
            => /\ \E r \in Reqs : StepOf(r) /\ pc[r] = "truckUpdate"
                                   /\ req[r].truckId = t
               /\ trucks'[t] = "Not Available"
       /\ DOMAIN trucks' = DOMAIN trucks]_vars

C9_Witness ==
    /\ last = Answer("updateDriverById", TRUE, 200)
    /\ 1 \in DOMAIN drivers /\ drivers[1].availabilityStatus = "Available"
    /\ \E r \in Reqs : pc[r] = "done" /\ resp[r].status = 201
    /\ \E id \in DOMAIN shipments : shipments[id].driverId = 1

\* C10 as claimed: a Driver's assignedTruck is set exactly by a createShipment
\* that names the driver; it becomes the request's truckId, and absent when
\* the request carries no truckId.  No other request gives a Driver an
\* assignedTruck.
C10_AssignedExactly ==
    [][/\ \A r \in Reqs :
            (StepOf(r) /\ pc[r] = "driverUpdate" /\ req[r].driverId \in DOMAIN drivers)
            => drivers'[req[r].driverId].assignedTruck = req[r].truckId
       /\ ~ShipmentStep
            => /\ \A d \in DOMAIN drivers \cap DOMAIN drivers' :
                    drivers'[d].assignedTruck = drivers[d].assignedTruck
               /\ \A d \in DOMAIN drivers' \ DOMAIN drivers :
                    drivers'[d].assignedTruck = Undefined]_vars

\* C10 as amended: createShipment changes a Driver's assignedTruck only in
\* the update of the driver its request names (an update the store rejects
\* changes nothing); with a truckId in the request the field becomes that
\* truckId, without one it is cleared or keeps the value it had.  Apart from createShipment only createDriver (the value of
\* its body, for the new record) and updateDriverById set the field.
C10_AssignedWriters ==
    [][/\ \A r \in Reqs : StepOf(r) =>
            \A d \in DOMAIN drivers :
                IF pc[r] = "driverUpdate" /\ req[r].driverId = d /\ ~Fails(r)
                  THEN /\ d \in DOMAIN drivers'
                       /\ req[r].truckId # Undefined
                            => drivers'[d].assignedTruck = req[r].truckId
                       /\ req[r].truckId = Undefined
                            => drivers'[d].assignedTruck
                                 \in {Undefined, drivers[d].assignedTruck}
                  ELSE d \in DOMAIN drivers' /\ drivers'[d] = drivers[d]
       /\ ~ShipmentStep
            => /\ (\E d \in DOMAIN drivers \cap DOMAIN drivers' :
                      drivers'[d].assignedTruck # drivers[d].assignedTruck)
                  => last' = Answer("updateDriverById", TRUE, 200)
               /\ DOMAIN drivers' \ DOMAIN drivers # {}
                  => last' = Answer("createDriver", TRUE, 201)]_vars

C10_Witness ==
    \E d \in DOMAIN drivers, id \in DOMAIN shipments :
        /\ shipments[id].driverId = d /\ shipments[id].truckId = Undefined
        /\ drivers[d].availabilityStatus = "Not Available"
        /\ drivers[d].assignedTruck = 1
        /\ \E r \in Reqs : pc[r] = "done" /\ resp[r].status = 201

\* C11: the writes of createShipment come in the order insert Shipment,
\* update Truck, update Driver, and nothing is rolled back: when the store
\* rejects the Truck or the Driver update, the request is answered 500, the
\* store is left as it was, the Shipment the request inserted is still
\* stored, and the Truck (when its update is the rejected one) and the Driver
\* (when the request names one) it refers to are still "Available"
\* (requests served one after the other).
C11_NoRollback ==
    [][\A r \in Reqs : StepOf(r) =>
        LET b == req[r] IN
        /\ Inserted # {} => pc[r] = "save"
        /\ trucks' # trucks => pc[r] = "truckUpdate"
        /\ drivers' # drivers => pc[r] = "driverUpdate"
        /\ (pc[r] = "save" /\ ~Fails(r)) =>
              pc'[r] = IF Truthy(b.truckId) THEN "truckUpdate"
                       ELSE IF Truthy(b.driverId) THEN "driverUpdate" ELSE "done"
        /\ (pc[r] = "truckUpdate" /\ ~Fails(r)) =>
              pc'[r] = IF Truthy(b.driverId) THEN "driverUpdate" ELSE "done"
        /\ (Fails(r) /\ pc[r] \in {"truckUpdate", "driverUpdate"}) =>
              /\ resp'[r].status = 500
              /\ UNCHANGED storeVars
              /\ counter.shipmentId \in DOMAIN shipments'
              /\ shipments'[counter.shipmentId].truckId = b.truckId
              /\ shipments'[counter.shipmentId].driverId = b.driverId
              /\ pc[r] = "truckUpdate" =>
                    /\ b.truckId \in DOMAIN trucks'
                    /\ trucks'[b.truckId] = "Available"
              /\ Truthy(b.driverId) =>
                    /\ b.driverId \in DOMAIN drivers'
                    /\ drivers'[b.driverId].availabilityStatus = "Available"]_vars

C11_Witness ==
    \E r \in Reqs, id \in DOMAIN shipments :
        /\ pc[r] = "done" /\ resp[r] = Failed
        /\ shipments[id].truckId = 1 /\ shipments[id].driverId = 1
        /\ trucks[1] = "Not Available"
        /\ 1 \in DOMAIN drivers /\ drivers[1].availabilityStatus = "Available"

\* C12: getAllShipments answers 500 with no shipment returned whenever a
\* stored Shipment has a clientId that matches no Client; otherwise it
\* answers 200 with one entry per stored Shipment, whose truck (driver) field
\* is null exactly when no Truck (Driver) matches the shipment's truckId
\* (driverId).
C12_ListingFails ==
    [][(last'.op = "getAllShipments" /\ calls' # calls /\ last'.at = calls') =>
        IF \E id \in DOMAIN shipments : shipments[id].clientId \notin clients
          THEN last'.status = 500 /\ last'.entries = <<>>
          ELSE /\ last'.status = 200
               /\ DOMAIN last'.entries = DOMAIN shipments
               /\ \A id \in DOMAIN shipments :
                    /\ last'.entries[id].truck = <<>>
                          <=> shipments[id].truckId \notin DOMAIN trucks
                    /\ last'.entries[id].driver = <<>>
                          <=> shipments[id].driverId \notin DOMAIN drivers]_vars

C12_Witness ==
    /\ last.op = "getAllShipments" /\ last.status = 500
    /\ \E id \in DOMAIN shipments :
          /\ shipments[id].clientId \notin clients
          /\ shipments[id].truckId \in DOMAIN trucks
====
